---- MODULE Spec2Model ----
(***************************************************************************)
(* libbitcoin-database: the transaction store (a slab hash table keyed by  *)
(* transaction hash), the history store (a record multimap keyed by        *)
(* address hash) and the unspent_transaction value.                        *)
(*                                                                         *)
(* Integers wider than TLC's are little-endian byte tuples: a size_t or a  *)
(* uint64_t is 8 bytes, a uint32_t is 4 bytes, a hash_digest 32 bytes, a   *)
(* short_hash 20 bytes.  The hash table, the multimap and the result view  *)
(* live in headers that are not part of the sources modelled here; they    *)
(* are modelled from the design document and marked so in the map.         *)
(***************************************************************************)
EXTENDS Integers, Sequences, FiniteSets, TLC

VARIABLES
    ndebug,      \* TRUE: built with NDEBUG, BITCOIN_ASSERT and DEBUG_ONLY expand to nothing
    running,     \* FALSE once an assertion has aborted the process
    outcome,     \* the last call made and how it ended
    tx_buckets,  \* transaction store: bucket -> offset of the newest slab, or empty
    tx_slabs,    \* transaction store: offset -> [next, key, value]
    tx_free,     \* transaction store: the slab manager's free-offset cursor
    tx_hist,     \* history variable: per hash, the stores and removes that took effect
    h_buckets,   \* history store: key-index bucket -> newest key record, or empty
    h_keys,      \* history store: key record -> [next, key, value = head row]
    h_rows,      \* history store: row -> [next, data]
    h_key_count, \* history store: the key record manager's count (its cursor)
    h_row_count, \* history store: the row manager's count (its cursor)
    h_stored,    \* history store: the counts the managers last persisted
    h_synced,    \* history variable: the files and the calls made, as of the last sync
    crashes,     \* the number of crashes so far
    files,       \* history store: what stop() has done to each of its two files
    h_hist,      \* history variable: per key, the adds and deletes that took effect
    h_pre,       \* history variable: the history store as it was before the last add
    utx,         \* unspent_transaction values: slot -> [height, is_coinbase, hash, outputs]
    utx_live,    \* the slots that hold a constructed value
    utx_heap,    \* the output maps the values' shared pointers point to
    utx_ident,   \* history variable: slot -> the hash its value was first built from
    utx_how,     \* history variable: slot -> whether it was last built, copied or moved into
    base,        \* mapped file: the address the file is mapped at, counted in remaps
    wpc,         \* mapped file: where the writer is in a growth of the file
    rpc,         \* reader -> where it is in the body of the loop of get
    handles,     \* mapped file: the readers that hold an access handle
    r_address,   \* reader -> the raw address it took from its handle
    stale        \* history variable: an address was used after the file moved

tx_vars == <<tx_buckets, tx_slabs, tx_free, tx_hist>>

h_counts == <<h_key_count, h_row_count>>

h_vars == <<h_buckets, h_keys, h_rows, h_counts, h_hist, h_pre>>

utx_vars == <<utx, utx_live, utx_heap, utx_ident, utx_how>>

map_vars == <<base, wpc, rpc, handles, r_address, stale>>

\* What the calls on the stores and on the values leave alone.
sys_vars == <<map_vars, h_stored, h_synced, crashes, files>>

vars == <<ndebug, running, outcome, tx_vars, h_vars, utx_vars, sys_vars>>

(***************************************************************************)
(* Bounds of the model.                                                    *)
(***************************************************************************)
MaxSlabs == 2

MaxRows == 2

MaxMaps == 2

MaxRemaps == 2

MaxCrashes == 1

(***************************************************************************)
(* Bytes and integers.                                                     *)
(***************************************************************************)
\* n bytes b.
RECURSIVE Bytes(_, _)
Bytes(n, b) == IF n = 0 THEN << >> ELSE <<b>> \o Bytes(n - 1, b)

\* An integer of (Len(lo) + n) bytes whose low bytes are lo, zero above.
Pad(lo, n) == lo \o Bytes(n, 0)

empty == 0

max_uint32 == <<255, 255, 255, 255, 0, 0, 0, 0>>

RECURSIVE LessEqFrom(_, _, _)
LessEqFrom(a, b, i) ==
    IF i = 0 THEN TRUE
    ELSE IF a[i] < b[i] THEN TRUE
    ELSE IF a[i] > b[i] THEN FALSE
    ELSE LessEqFrom(a, b, i - 1)

\* a <= b for two unsigned integers of the same width.
LessEq(a, b) == LessEqFrom(a, b, Len(a))

\* serial.write_4_bytes_little_endian(v): v narrows to uint32_t, low byte first.
write_4_bytes_little_endian(v) == SubSeq(v, 1, 4)

\* serial.write_8_bytes_little_endian(v).
write_8_bytes_little_endian(v) == SubSeq(v, 1, 8)

\* The uint32_t read at byte position pos (1-based) of data.
read_4_bytes_little_endian(data, pos) == SubSeq(data, pos, pos + 3)

read_8_bytes_little_endian(data, pos) == SubSeq(data, pos, pos + 7)

\* A uint32_t widened to size_t.
to_size_t(u32) == Pad(u32, 4)

(***************************************************************************)
(* Transactions (chain::transaction, consumed through serialized_size,     *)
(* to_data, from_data, hash, is_coinbase and outputs).                     *)
(***************************************************************************)
T1 == [coinbase |-> TRUE, outputs |-> <<50>>]
T2 == [coinbase |-> FALSE, outputs |-> <<10, 20>>]
T3 == [coinbase |-> FALSE, outputs |-> << >>]

Txs == {T1, T2, T3}

\* Digests whose values are 1, 100000001 and 2: the first two share a bucket.
H1 == Pad(<<1>>, 31)
H2 == Pad(<<1, 225, 245, 5>>, 28)
H3 == Pad(<<2>>, 31)

Hashes == {H1, H2, H3}

tx_hash(tx) == CASE tx = T1 -> H1 [] tx = T2 -> H2 [] OTHER -> H3

\* tx.to_data(): the coinbase flag, the output count, the outputs.
to_data(tx) == <<IF tx.coinbase THEN 1 ELSE 0, Len(tx.outputs)>> \o tx.outputs

serialized_size(tx) == 2 + Len(tx.outputs)

\* transaction::from_data on the bytes that start at position pos.
from_data(data, pos) ==
    [coinbase |-> data[pos] = 1,
     outputs |-> SubSeq(data, pos + 2, pos + 1 + data[pos + 1])]

(***************************************************************************)
(* Slab hash table.                                                        *)
(***************************************************************************)
number_buckets == 100000000

\* The key as a number (the inputs keep it within four bytes).
key_value(key) == key[1] + 256 * key[2] + 65536 * key[3] + 16777216 * key[4]

bucket_index(key, buckets) == key_value(key) % buckets

\* The buckets the model's hashes select; every other bucket stays empty.
TxBuckets == {bucket_index(h, number_buckets) : h \in Hashes}

\* The bytes a slab takes: the next offset, the key, the value.
slab_size(key, value_size) == 8 + Len(key) + value_size

RECURSIVE find_from(_, _, _)
find_from(slabs, current, key) ==
    IF current = empty THEN empty
    ELSE IF slabs[current].key = key THEN current
    ELSE find_from(slabs, slabs[current].next, key)

\* find(key): the offset of the first slab of the bucket's chain that holds key.
slab_find(buckets, slabs, key, n) ==
    find_from(slabs, buckets[bucket_index(key, n)], key)

\* store(key, write, value_size): a new slab in front of the bucket's chain.
slab_store(buckets, slabs, free, key, value, value_size, n) ==
    LET b == bucket_index(key, n)
        item == [next |-> buckets[b], key |-> key, value |-> value]
    IN  [buckets |-> [buckets EXCEPT ![b] = free],
         slabs |-> (free :> item) @@ slabs,
         free |-> free + slab_size(key, value_size)]

RECURSIVE unlink_from(_, _, _, _)
unlink_from(slabs, previous, current, key) ==
    IF current = empty THEN [found |-> FALSE, slabs |-> slabs]
    ELSE IF slabs[current].key = key
    THEN [found |-> TRUE,
          slabs |-> [slabs EXCEPT ![previous].next = slabs[current].next]]
    ELSE unlink_from(slabs, current, slabs[current].next, key)

\* unlink(key): splice the first slab holding key out of the bucket's chain.
slab_unlink(buckets, slabs, key, n) ==
    LET b == bucket_index(key, n)
        begin == buckets[b]
    IN  IF begin = empty
        THEN [found |-> FALSE, buckets |-> buckets, slabs |-> slabs]
        ELSE IF slabs[begin].key = key
        THEN [found |-> TRUE,
              buckets |-> [buckets EXCEPT ![b] = slabs[begin].next],
              slabs |-> slabs]
        ELSE LET r == unlink_from(slabs, begin, slabs[begin].next, key)
             IN  [found |-> r.found, buckets |-> buckets, slabs |-> r.slabs]

(***************************************************************************)
(* Transaction store.                                                      *)
(***************************************************************************)
\* transaction_result: the view get returns, decoded.
transaction_result(slabs, memory) ==
    IF memory = empty THEN [found |-> FALSE]
    ELSE LET data == slabs[memory].value
         IN  [found |-> TRUE,
              height |-> to_size_t(read_4_bytes_little_endian(data, 1)),
              index |-> to_size_t(read_4_bytes_little_endian(data, 5)),
              tx |-> from_data(data, 9)]

\* transaction_database::get.
tx_get(buckets, slabs, hash) ==
    transaction_result(slabs, slab_find(buckets, slabs, hash, number_buckets))

\* tx_write with the two integers written in the wrong order.
tx_write_swapped(hight32, index32, tx) ==
    write_4_bytes_little_endian(index32)
        \o write_4_bytes_little_endian(hight32)
        \o to_data(tx)

\* The write lambda of store: what it leaves in the slab.
tx_write(hight32, index32, tx) ==
    write_4_bytes_little_endian(hight32)
        \o write_4_bytes_little_endian(index32)
        \o to_data(tx)

\* The two BITCOIN_ASSERTs of store on height and index.
store_asserts(height, index) ==
    LessEq(height, max_uint32) /\ LessEq(index, max_uint32)

\* How a call ended: <<the call, "return" or "abort", what it found>>.
Ended(op, ret, found) == <<op, ret, found>>

Aborted(op) == Ended(op, "abort", FALSE)

Returned(op) == Ended(op, "return", TRUE)

Ret(o) == o[2]

\* TxStore with the key's current slab unlinked before the new one is stored.
TxStoreReplacing(height, index, tx) ==
    /\ running
    /\ Cardinality(DOMAIN tx_slabs) < MaxSlabs
    /\ IF ~ndebug /\ ~store_asserts(height, index)
       THEN /\ running' = FALSE
            /\ outcome' = Aborted("store")
            /\ UNCHANGED <<tx_buckets, tx_slabs, tx_free, tx_hist>>
       ELSE LET key == tx_hash(tx)
                value_size == 4 + 4 + serialized_size(tx)
                u == slab_unlink(tx_buckets, tx_slabs, key, number_buckets)
                r == slab_store(u.buckets, u.slabs, tx_free, key,
                                tx_write(height, index, tx), value_size,
                                number_buckets)
            IN  /\ tx_buckets' = r.buckets
                /\ tx_slabs' = r.slabs
                /\ tx_free' = r.free
                /\ tx_hist' = [tx_hist EXCEPT ![key] = Append(@,
                       [op |-> "store", height |-> height, index |-> index,
                        tx |-> tx, at |-> tx_free])]
                /\ outcome' = Returned("store")
                /\ UNCHANGED running
    /\ UNCHANGED <<sys_vars, ndebug, h_vars, utx_vars>>

\* transaction_database::store.
TxStore(height, index, tx) ==
    /\ running
    /\ Cardinality(DOMAIN tx_slabs) < MaxSlabs
    /\ IF ~ndebug /\ ~store_asserts(height, index)
       THEN /\ running' = FALSE
            /\ outcome' = Aborted("store")
            /\ UNCHANGED <<tx_buckets, tx_slabs, tx_free, tx_hist>>
       ELSE LET key == tx_hash(tx)
                value_size == 4 + 4 + serialized_size(tx)
                r == slab_store(tx_buckets, tx_slabs, tx_free, key,
                                tx_write(height, index, tx), value_size,
                                number_buckets)
            IN  /\ tx_buckets' = r.buckets
                /\ tx_slabs' = r.slabs
                /\ tx_free' = r.free
                /\ tx_hist' = [tx_hist EXCEPT ![key] = Append(@,
                       [op |-> "store", height |-> height, index |-> index,
                        tx |-> tx, at |-> tx_free])]
                /\ outcome' = Returned("store")
                /\ UNCHANGED running
    /\ UNCHANGED <<sys_vars, ndebug, h_vars, utx_vars>>

\* TxRemove with the result of unlink never checked, in any build.
TxRemoveUnchecked(hash) ==
    /\ running
    /\ LET r == slab_unlink(tx_buckets, tx_slabs, hash, number_buckets)
       IN  /\ tx_buckets' = r.buckets
           /\ tx_slabs' = r.slabs
           /\ tx_hist' = IF r.found
                         THEN [tx_hist EXCEPT ![hash] =
                                   Append(@, [op |-> "remove"])]
                         ELSE tx_hist
           /\ outcome' = Ended("remove", "return", r.found)
    /\ UNCHANGED <<sys_vars, ndebug, running, tx_free, h_vars, utx_vars>>

\* TxRemove unlinking every slab of the hash.
TxRemoveEvery(hash) ==
    /\ running
    /\ LET r == slab_unlink(tx_buckets, tx_slabs, hash, number_buckets)
           q == slab_unlink(r.buckets, r.slabs, hash, number_buckets)
       IN  /\ tx_buckets' = q.buckets
           /\ tx_slabs' = q.slabs
           /\ IF r.found
              THEN /\ tx_hist' = [tx_hist EXCEPT ![hash] =
                                      Append(@, [op |-> "remove"])]
                   /\ outcome' = Ended("remove", "return", TRUE)
                   /\ UNCHANGED running
              ELSE /\ UNCHANGED tx_hist
                   /\ running' = ndebug
                   /\ outcome' = Ended("remove",
                                        IF ndebug THEN "return" ELSE "abort",
                                        FALSE)
    /\ UNCHANGED <<sys_vars, ndebug, tx_free, h_vars, utx_vars>>

\* TxRemove unlinking by moving the bucket to the slab behind the one found.
TxRemoveTruncating(hash) ==
    /\ running
    /\ LET at == slab_find(tx_buckets, tx_slabs, hash, number_buckets)
           b == bucket_index(hash, number_buckets)
       IN  IF at # empty
           THEN /\ tx_buckets' = [tx_buckets EXCEPT ![b] = tx_slabs[at].next]
                /\ tx_hist' = [tx_hist EXCEPT ![hash] =
                                   Append(@, [op |-> "remove"])]
                /\ outcome' = Ended("remove", "return", TRUE)
                /\ UNCHANGED running
           ELSE /\ UNCHANGED <<tx_buckets, tx_hist>>
                /\ running' = ndebug
                /\ outcome' = Ended("remove",
                                     IF ndebug THEN "return" ELSE "abort",
                                     FALSE)
    /\ UNCHANGED <<sys_vars, ndebug, tx_slabs, tx_free, h_vars, utx_vars>>

\* transaction_database::remove.
TxRemove(hash) ==
    /\ running
    /\ LET r == slab_unlink(tx_buckets, tx_slabs, hash, number_buckets)
       IN  /\ tx_buckets' = r.buckets
           /\ tx_slabs' = r.slabs
           /\ IF r.found
              THEN /\ tx_hist' = [tx_hist EXCEPT ![hash] =
                                      Append(@, [op |-> "remove"])]
                   /\ outcome' = Ended("remove", "return", TRUE)
                   /\ UNCHANGED running
              ELSE /\ UNCHANGED tx_hist
                   /\ running' = ndebug
                   /\ outcome' = Ended("remove",
                                        IF ndebug THEN "return" ELSE "abort",
                                        FALSE)
    /\ UNCHANGED <<sys_vars, ndebug, tx_free, h_vars, utx_vars>>

\* TxGet with an assertion that the slab was found.
TxGetAsserting(hash) ==
    /\ running
    /\ LET found == tx_get(tx_buckets, tx_slabs, hash).found
       IN  /\ outcome' = Ended("get", IF found \/ ndebug THEN "return"
                                      ELSE "abort", found)
           /\ running' = (found \/ ndebug)
    /\ UNCHANGED <<sys_vars, ndebug, tx_vars, h_vars, utx_vars>>

\* transaction_database::get, called by a client.
TxGet(hash) ==
    /\ running
    /\ outcome' = Ended("get", "return",
                        tx_get(tx_buckets, tx_slabs, hash).found)
    /\ UNCHANGED <<sys_vars, ndebug, running, tx_vars, h_vars, utx_vars>>

(***************************************************************************)
(* Points (chain::point: a 32-byte hash and a 4-byte index).               *)
(***************************************************************************)
\* point.to_data(): the 36-byte form.
point_to_data(p) == p.hash \o write_4_bytes_little_endian(p.index)

\* point::factory_from_data on the bytes that start at position pos.
point_from_data(data, pos) ==
    [hash |-> SubSeq(data, pos, pos + 31),
     index |-> read_4_bytes_little_endian(data, pos + 32)]

\* previous.checksum(): a 64-bit fingerprint of the spent output.
checksum(p) == SubSeq(p.hash, 1, 4) \o p.index

(***************************************************************************)
(* Record multimap: a key index (a hash table of records whose value is    *)
(* the head row of the key) over a list of linked rows.                    *)
(***************************************************************************)
history_buckets == 97210744

\* The index the record manager hands out next, from its count; index 0 is
\* the sentinel.
allocate(count) == count + 1

\* lookup(key): the head row of key, or empty.
mm_lookup(buckets, keys, key) ==
    LET r == slab_find(buckets, keys, key, history_buckets)
    IN  IF r = empty THEN empty ELSE keys[r].value

\* add_row(key, write): a new row in front of the key's rows.
mm_add_row(buckets, keys, rows, key_count, row_count, key, data) ==
    LET r == slab_find(buckets, keys, key, history_buckets)
        b == bucket_index(key, history_buckets)
        row == allocate(row_count)
        head == IF r = empty THEN empty ELSE keys[r].value
        new_rows == (row :> [next |-> head, data |-> data]) @@ rows
    IN  IF r = empty
        THEN LET k == allocate(key_count)
             IN  [buckets |-> [buckets EXCEPT ![b] = k],
                  keys |-> (k :> [next |-> buckets[b], key |-> key,
                                  value |-> row]) @@ keys,
                  rows |-> new_rows,
                  key_count |-> k, row_count |-> row]
        ELSE [buckets |-> buckets,
              keys |-> [keys EXCEPT ![r].value = row],
              rows |-> new_rows,
              key_count |-> key_count, row_count |-> row]

\* Whether delete_last_row(key) has a row to delete.
mm_has_rows(buckets, keys, key) == mm_lookup(buckets, keys, key) # empty

\* delete_last_row(key): the key index moves to the head row's next.
mm_delete_last_row(buckets, keys, rows, key) ==
    LET r == slab_find(buckets, keys, key, history_buckets)
    IN  [buckets |-> buckets,
         keys |-> [keys EXCEPT ![r].value = rows[keys[r].value].next],
         rows |-> rows]

\* The step of record_multimap_iterable: the row behind index.
rows_next(rows, index) == rows[index].next

(***************************************************************************)
(* History store.                                                          *)
(***************************************************************************)
\* The write lambda of add_output: the 49 bytes it leaves in the row.
output_write(outpoint, output_height, value) ==
    <<0>> \o point_to_data(outpoint)
        \o write_4_bytes_little_endian(output_height)
        \o write_8_bytes_little_endian(value)

\* The write lambda of add_spend.
spend_write(previous, spend, spend_height) ==
    <<1>> \o point_to_data(spend)
        \o write_4_bytes_little_endian(spend_height)
        \o write_8_bytes_little_endian(checksum(previous))

marker_valid(marker) == marker = 0 \/ marker = 1

marker_to_kind(marker) == IF marker = 0 THEN "output" ELSE "spend"

height_position == 1 + 36

\* read_height: the uint32_t at height_position of the row.
read_height(data) == read_4_bytes_little_endian(data, height_position + 1)

\* read_row: the history_row a row decodes to.
read_row(data) ==
    [kind |-> marker_to_kind(data[1]),
     point |-> point_from_data(data, 2),
     height |-> read_4_bytes_little_endian(data, 38),
     value |-> read_8_bytes_little_endian(data, 42)]

Matches(from_height, height32) ==
    from_height = Pad(<<0>>, 7) \/ LessEq(from_height, to_size_t(height32))

\* get_loop with each row put in front of the result.
RECURSIVE get_loop_prepending(_, _, _, _, _)
get_loop_prepending(rows, index, result, limit, from_height) ==
    IF index = empty THEN result
    ELSE IF limit # 0 /\ Len(result) >= limit THEN result
    ELSE LET address == rows[index].data
         IN  get_loop_prepending(rows, rows_next(rows, index),
                 IF Matches(from_height, read_height(address))
                 THEN <<read_row(address)>> \o result
                 ELSE result,
                 limit, from_height)

\* get_loop with the limit compared by > in place of >=.
RECURSIVE get_loop_limit_off_by_one(_, _, _, _, _)
get_loop_limit_off_by_one(rows, index, result, limit, from_height) ==
    IF index = empty THEN result
    ELSE IF limit # 0 /\ Len(result) > limit THEN result
    ELSE LET address == rows[index].data
         IN  get_loop_limit_off_by_one(rows, rows_next(rows, index),
                 IF Matches(from_height, read_height(address))
                 THEN Append(result, read_row(address))
                 ELSE result,
                 limit, from_height)

\* get_loop leaving the loop at the first row below from_height.
RECURSIVE get_loop_stopping(_, _, _, _, _)
get_loop_stopping(rows, index, result, limit, from_height) ==
    IF index = empty THEN result
    ELSE IF limit # 0 /\ Len(result) >= limit THEN result
    ELSE LET address == rows[index].data
         IN  IF Matches(from_height, read_height(address))
             THEN get_loop_stopping(rows, rows_next(rows, index),
                      Append(result, read_row(address)), limit, from_height)
             ELSE result

\* The loop of get from the row at index on; limit is a plain number.
RECURSIVE get_loop(_, _, _, _, _)
get_loop(rows, index, result, limit, from_height) ==
    IF index = empty THEN result
    ELSE IF limit # 0 /\ Len(result) >= limit THEN result
    ELSE LET address == rows[index].data
         IN  get_loop(rows, rows_next(rows, index),
                 IF Matches(from_height, read_height(address))
                 THEN Append(result, read_row(address))
                 ELSE result,
                 limit, from_height)

\* history_database::get.
history_get(buckets, keys, rows, key, limit, from_height) ==
    get_loop(rows, mm_lookup(buckets, keys, key), << >>, limit, from_height)

\* The rows get visits, for the assertion of marker_to_kind.
RECURSIVE chain_rows(_, _)
chain_rows(rows, index) ==
    IF index = empty THEN {}
    ELSE {index} \cup chain_rows(rows, rows_next(rows, index))

HistVars == <<h_buckets, h_keys, h_rows>>

\* What the history variable keeps of a call to add_output or add_spend;
\* other is the value of an output and the previous point of a spend.
Call(op, point, height, other) ==
    IF op = "add_output"
    THEN [op |-> op, point |-> point, height |-> height, value |-> other]
    ELSE [op |-> op, point |-> point, height |-> height, previous |-> other]

\* AddRow giving the row to the key that heads the bucket of key.
AddRowBucketHead(op, key, data, point, height, other) ==
    /\ running
    /\ h_row_count < MaxRows
    /\ LET b == bucket_index(key, history_buckets)
           first == IF h_buckets[b] = empty THEN key
                    ELSE h_keys[h_buckets[b]].key
           r == mm_add_row(h_buckets, h_keys, h_rows, h_key_count,
                           h_row_count, first, data)
       IN  /\ h_buckets' = r.buckets
           /\ h_keys' = r.keys
           /\ h_rows' = r.rows
           /\ h_key_count' = r.key_count
           /\ h_row_count' = r.row_count
    /\ h_hist' = [h_hist EXCEPT ![key] =
                      Append(@, Call(op, point, height, other))]
    /\ h_pre' = [stage |-> "added", key |-> key, buckets |-> h_buckets,
                 keys |-> h_keys, rows |-> h_rows]
    /\ outcome' = Returned(op)
    /\ UNCHANGED <<sys_vars, ndebug, running, tx_vars, utx_vars>>

\* The add_row call both add_output and add_spend end with.
AddRow(op, key, data, point, height, other) ==
    /\ running
    /\ h_row_count < MaxRows
    /\ LET r == mm_add_row(h_buckets, h_keys, h_rows, h_key_count,
                           h_row_count, key, data)
       IN  /\ h_buckets' = r.buckets
           /\ h_keys' = r.keys
           /\ h_rows' = r.rows
           /\ h_key_count' = r.key_count
           /\ h_row_count' = r.row_count
    /\ h_hist' = [h_hist EXCEPT ![key] =
                      Append(@, Call(op, point, height, other))]
    /\ h_pre' = [stage |-> "added", key |-> key, buckets |-> h_buckets,
                 keys |-> h_keys, rows |-> h_rows]
    /\ outcome' = Returned(op)
    /\ UNCHANGED <<sys_vars, ndebug, running, tx_vars, utx_vars>>

\* history_database::add_output.
AddOutput(key, outpoint, output_height, value) ==
    AddRow("add_output", key, output_write(outpoint, output_height, value),
           outpoint, output_height, value)

\* history_database::add_spend.
AddSpend(key, previous, spend, spend_height) ==
    AddRow("add_spend", key, spend_write(previous, spend, spend_height),
           spend, spend_height, previous)

NoPre == [stage |-> "none"]

\* DeleteLastRow with the call to the multimap left out.
DeleteLastRowNoop(key) ==
    /\ running
    /\ h_hist' = [h_hist EXCEPT ![key] = Append(@, [op |-> "delete_last_row"])]
    /\ h_pre' = IF h_pre.stage = "added" /\ h_pre.key = key
                THEN [h_pre EXCEPT !.stage = "undone"]
                ELSE NoPre
    /\ outcome' = Returned("delete_last_row")
    /\ UNCHANGED <<sys_vars, ndebug, running, tx_vars, utx_vars, h_buckets,
                   h_keys, h_rows, h_counts>>

\* DeleteLastRow returning normally when the key has no rows.
DeleteLastRowLenient(key) ==
    /\ running
    /\ IF mm_has_rows(h_buckets, h_keys, key)
       THEN /\ LET r == mm_delete_last_row(h_buckets, h_keys, h_rows, key)
               IN  /\ h_buckets' = r.buckets
                   /\ h_keys' = r.keys
                   /\ h_rows' = r.rows
            /\ h_hist' = [h_hist EXCEPT ![key] =
                              Append(@, [op |-> "delete_last_row"])]
            /\ h_pre' = IF h_pre.stage = "added" /\ h_pre.key = key
                        THEN [h_pre EXCEPT !.stage = "undone"]
                        ELSE NoPre
            /\ outcome' = Returned("delete_last_row")
       ELSE /\ outcome' = Ended("delete_last_row", "return", FALSE)
            /\ UNCHANGED <<h_buckets, h_keys, h_rows, h_hist, h_pre>>
    /\ UNCHANGED <<sys_vars, ndebug, running, tx_vars, utx_vars, h_counts>>

\* history_database::delete_last_row.
DeleteLastRow(key) ==
    /\ running
    /\ IF mm_has_rows(h_buckets, h_keys, key)
       THEN /\ LET r == mm_delete_last_row(h_buckets, h_keys, h_rows, key)
               IN  /\ h_buckets' = r.buckets
                   /\ h_keys' = r.keys
                   /\ h_rows' = r.rows
            /\ h_hist' = [h_hist EXCEPT ![key] =
                              Append(@, [op |-> "delete_last_row"])]
            /\ h_pre' = IF h_pre.stage = "added" /\ h_pre.key = key
                        THEN [h_pre EXCEPT !.stage = "undone"]
                        ELSE NoPre
            /\ outcome' = Returned("delete_last_row")
            /\ UNCHANGED running
       ELSE /\ running' = FALSE
            /\ outcome' = Aborted("delete_last_row")
            /\ UNCHANGED <<h_buckets, h_keys, h_rows, h_hist, h_pre>>
    /\ UNCHANGED <<sys_vars, ndebug, tx_vars, utx_vars, h_counts>>

\* history_database::get, called by a client.
HistGet(key, limit, from_height) ==
    /\ running
    /\ LET visited == chain_rows(h_rows, mm_lookup(h_buckets, h_keys, key))
           ok == \A i \in visited : marker_valid(h_rows[i].data[1])
       IN  IF ndebug \/ ok
           THEN /\ outcome' = Ended("history_get", "return",
                                   history_get(h_buckets, h_keys, h_rows,
                                       key, limit, from_height) # << >>)
                /\ UNCHANGED running
           ELSE /\ outcome' = Aborted("history_get")
                /\ running' = FALSE
    /\ h_pre' = NoPre
    /\ UNCHANGED <<sys_vars, ndebug, tx_vars, utx_vars, h_buckets, h_keys,
                   h_rows, h_counts, h_hist>>

(***************************************************************************)
(* History store: statistics and life cycle.                               *)
(***************************************************************************)
\* statinfo reading the count of the key record manager for both counts.
statinfo_one_manager(key_count, row_count) ==
    [buckets |-> history_buckets, addrs |-> key_count, rows |-> key_count]

\* history_database::statinfo: { buckets, addrs, rows }.
statinfo(key_count, row_count) ==
    [buckets |-> history_buckets, addrs |-> key_count, rows |-> row_count]

\* history_database::statinfo, called by a client.
HistStatInfo ==
    /\ running
    /\ outcome' = Ended("statinfo", "return",
                        statinfo(h_key_count, h_row_count))
    /\ UNCHANGED <<sys_vars, ndebug, running, tx_vars, h_vars, utx_vars>>

\* history_database::sync: each manager persists its count.
HistSync ==
    /\ running
    /\ h_stored' = [keys |-> h_key_count, rows |-> h_row_count]
    /\ h_synced' = [buckets |-> h_buckets, keys |-> h_keys, rows |-> h_rows,
                    hist |-> h_hist, at |-> crashes]
    /\ outcome' = Returned("sync")
    /\ UNCHANGED <<map_vars, crashes, files, ndebug, running, tx_vars, h_vars,
                   utx_vars>>

\* The process dies.  What was written to the mapped files since the last
\* sync has reached the disk (survive) or has not; the managers' counts in
\* memory are gone either way.
Crash(survive) ==
    /\ running
    /\ crashes < MaxCrashes
    /\ crashes' = crashes + 1
    /\ running' = FALSE
    /\ outcome' = Ended("crash", "abort", survive)
    /\ IF survive
       THEN UNCHANGED <<h_buckets, h_keys, h_rows, h_hist>>
       ELSE /\ h_buckets' = h_synced.buckets
            /\ h_keys' = h_synced.keys
            /\ h_rows' = h_synced.rows
            /\ h_hist' = h_synced.hist
    /\ h_pre' = NoPre
    /\ UNCHANGED <<map_vars, h_stored, h_synced, files, ndebug, tx_vars,
                   h_counts, utx_vars>>

\* history_database::start in a new process after the old one died: the
\* managers read the counts that were persisted.
HistStart ==
    /\ ~running
    /\ Ret(outcome) = "abort"
    /\ running' = TRUE
    /\ h_key_count' = h_stored.keys
    /\ h_row_count' = h_stored.rows
    /\ files' = [lookup |-> "open", rows |-> "open"]
    /\ outcome' = Returned("start")
    /\ UNCHANGED <<map_vars, h_stored, h_synced, crashes, ndebug, tx_vars,
                   h_buckets, h_keys, h_rows, h_hist, h_pre, utx_vars>>

\* memory_map::stop on one file: the file is flushed and released, or the
\* attempt fails.
file_stop(ok) == IF ok THEN "stopped" ELSE "failed"

\* history_database::stop: lookup_file_.stop() && rows_file_.stop().
HistStop(lookup_ok, rows_ok) ==
    /\ running
    /\ files' = [lookup |-> file_stop(lookup_ok),
                 rows |-> IF lookup_ok THEN file_stop(rows_ok) ELSE files.rows]
    /\ outcome' = Ended("stop", "return", lookup_ok /\ rows_ok)
    /\ running' = FALSE
    /\ UNCHANGED <<map_vars, h_stored, h_synced, crashes, ndebug, tx_vars,
                   h_vars, utx_vars>>

\* An add to key links a new record behind the managers' counts only.
Linkable(key) ==
    LET r == slab_find(h_buckets, h_keys, key, history_buckets)
    IN  IF r = empty
        THEN h_buckets[bucket_index(key, history_buckets)] <= h_key_count
        ELSE h_keys[r].value <= h_row_count

(***************************************************************************)
(* unspent_transaction: a value in one of the model's slots.  outputs_ is  *)
(* a shared pointer, here the index of a map in utx_heap.                  *)
(***************************************************************************)
\* The values a caller holds at once.
Slots == {"a", "b", "c"}

\* std::make_shared<output_map>(): the pointer a new map gets.
make_shared(heap) == Len(heap) + 1

\* The map the transaction constructor fills: output index -> output.
output_map(tx) == [index \in 0..(Len(tx.outputs) - 1) |-> tx.outputs[index + 1]]

\* std::move of a hash_digest (an array of bytes) copies it.
std_move(hash) == hash

\* unspent_transaction::hash().
utx_hash_of(a) == a.hash

\* operator== comparing every data member.
utx_equal_memberwise(a, b) ==
    /\ a.hash = b.hash
    /\ a.height = b.height
    /\ a.is_coinbase = b.is_coinbase
    /\ a.outputs = b.outputs

\* unspent_transaction::operator==.
utx_equal(a, b) == a.hash = b.hash

\* The members a copy or a move gives the destination.
utx_members_of(other) ==
    [height |-> other.height, is_coinbase |-> other.is_coinbase,
     hash |-> other.hash, outputs |-> other.outputs]

Construct(slot, height, is_coinbase, hash, map, how) ==
    /\ slot \notin utx_live
    /\ Len(utx_heap) < MaxMaps
    /\ utx_live' = utx_live \cup {slot}
    /\ utx' = [utx EXCEPT ![slot] =
                   [height |-> height, is_coinbase |-> is_coinbase,
                    hash |-> hash, outputs |-> make_shared(utx_heap)]]
    /\ utx_heap' = Append(utx_heap, map)
    /\ utx_ident' = [utx_ident EXCEPT ![slot] = hash]
    /\ utx_how' = [utx_how EXCEPT ![slot] = how]
    /\ UNCHANGED <<sys_vars, ndebug, running, outcome, tx_vars, h_vars>>

\* unspent_transaction(const hash_digest& hash).
UtxFromHash(slot, hash) ==
    Construct(slot, Pad(<<0>>, 7), FALSE, hash, << >>, "built")

\* unspent_transaction(const output_point& point).
UtxFromPoint(slot, point) ==
    Construct(slot, Pad(<<0>>, 7), FALSE, point.hash, << >>, "built")

\* unspent_transaction(const chain::transaction& tx, size_t height).
UtxFromTx(slot, tx, height) ==
    Construct(slot, height, tx.coinbase, tx_hash(tx), output_map(tx), "built")

\* The copy and the move constructor: slot is built from other.
ConstructFrom(slot, other, hash, how) ==
    /\ slot \notin utx_live
    /\ other \in utx_live
    /\ utx_live' = utx_live \cup {slot}
    /\ utx' = [utx EXCEPT ![slot] =
                   [utx_members_of(utx[other]) EXCEPT !.hash = hash]]
    /\ utx_ident' = [utx_ident EXCEPT ![slot] = utx_ident[other]]
    /\ utx_how' = [utx_how EXCEPT ![slot] = how]
    /\ UNCHANGED <<sys_vars, ndebug, running, outcome, tx_vars, h_vars, utx_heap>>

\* unspent_transaction(const unspent_transaction& other).
UtxCopyConstruct(slot, other) ==
    ConstructFrom(slot, other, utx[other].hash, "copied")

\* unspent_transaction(unspent_transaction&& other).
UtxMoveConstruct(slot, other) ==
    ConstructFrom(slot, other, std_move(utx[other].hash), "moved")

\* The copy and the move assignment: slot = other.
AssignFrom(slot, other, hash, how) ==
    /\ slot \in utx_live
    /\ other \in utx_live
    /\ utx' = [utx EXCEPT ![slot] =
                   [utx_members_of(utx[other]) EXCEPT !.hash = hash]]
    /\ utx_ident' = [utx_ident EXCEPT ![slot] = utx_ident[other]]
    /\ utx_how' = [utx_how EXCEPT ![slot] = how]
    /\ UNCHANGED <<sys_vars, ndebug, running, outcome, tx_vars, h_vars, utx_heap,
                   utx_live>>

\* operator=(const unspent_transaction& other).
UtxCopyAssign(slot, other) ==
    AssignFrom(slot, other, utx[other].hash, "copied")

\* operator=(unspent_transaction&& other).
UtxMoveAssign(slot, other) ==
    AssignFrom(slot, other, std_move(utx[other].hash), "moved")

(***************************************************************************)
(* Mapped file: readers in the body of the loop of get, each taking an     *)
(* access handle for one row, and one writer whose allocation grows the    *)
(* file.                                                                   *)
(***************************************************************************)
Readers == {"r1", "r2"}

\* The address of a reader that holds none.
no_address == 0 - 1

StoreVars ==
    <<ndebug, running, outcome, tx_vars, h_vars, utx_vars, h_stored, h_synced,
      crashes, files>>

\* A caller enters the loop body of get and asks for the row at index.
ReaderEnter(r) ==
    /\ rpc[r] = "idle"
    /\ rpc' = [rpc EXCEPT ![r] = "waiting"]
    /\ UNCHANGED <<StoreVars, base, wpc, handles, r_address, stale>>

\* ReaderAccess taking the raw address without keeping the handle.
ReaderAccessUnheld(r) ==
    /\ rpc[r] = "waiting"
    /\ wpc = "idle"
    /\ r_address' = [r_address EXCEPT ![r] = base]
    /\ rpc' = [rpc EXCEPT ![r] = "held"]
    /\ UNCHANGED <<StoreVars, base, wpc, handles, stale>>

\* record = rows_list_.get(index); address = REMAP_ADDRESS(record): the
\* handle is granted when no growth is under way.
ReaderAccess(r) ==
    /\ rpc[r] = "waiting"
    /\ wpc = "idle"
    /\ handles' = handles \cup {r}
    /\ r_address' = [r_address EXCEPT ![r] = base]
    /\ rpc' = [rpc EXCEPT ![r] = "held"]
    /\ UNCHANGED <<StoreVars, base, wpc, stale>>

\* read_height(address) and read_row(address): the address is dereferenced.
ReaderRead(r) ==
    /\ rpc[r] = "held"
    /\ stale' = (stale \/ r_address[r] # base)
    /\ rpc' = [rpc EXCEPT ![r] = "read"]
    /\ UNCHANGED <<StoreVars, base, wpc, handles, r_address>>

\* ReaderRelease leaving the handle counted as outstanding.
ReaderReleaseLeaking(r) ==
    /\ rpc[r] = "read"
    /\ r_address' = [r_address EXCEPT ![r] = no_address]
    /\ rpc' = [rpc EXCEPT ![r] = "idle"]
    /\ UNCHANGED <<StoreVars, base, wpc, handles, stale>>

\* The end of the loop body: record goes out of scope.
ReaderRelease(r) ==
    /\ rpc[r] = "read"
    /\ handles' = handles \ {r}
    /\ r_address' = [r_address EXCEPT ![r] = no_address]
    /\ rpc' = [rpc EXCEPT ![r] = "idle"]
    /\ UNCHANGED <<StoreVars, base, wpc, stale>>

\* An allocation exceeds the file: the writer asks for growth, and from
\* here on no handle is granted.
WriterResize ==
    /\ wpc = "idle"
    /\ base < MaxRemaps
    /\ wpc' = "waiting"
    /\ UNCHANGED <<StoreVars, base, rpc, handles, r_address, stale>>

\* No handle is outstanding: the file is mapped again, at a new address.
WriterRemap ==
    /\ wpc = "waiting"
    /\ handles = {}
    /\ base' = base + 1
    /\ wpc' = "remapped"
    /\ UNCHANGED <<StoreVars, rpc, handles, r_address, stale>>

\* The writer notifies the waiting readers and goes on with its write.
WriterResume ==
    /\ wpc = "remapped"
    /\ wpc' = "idle"
    /\ UNCHANGED <<StoreVars, base, rpc, handles, r_address, stale>>

(***************************************************************************)
(* Inputs.                                                                 *)
(***************************************************************************)
N(b) == Pad(<<b>>, 7)

\* 2^32 + b: the smallest values that do not fit in 32 bits.
Over(b) == <<b, 0, 0, 0, 1, 0, 0, 0>>

\* (height, index) pairs: in range, at the 32-bit limit, and beyond it.
StoreArgs ==
    {<<N(100), N(2)>>, <<max_uint32, N(0)>>, <<Over(100), N(2)>>,
     <<N(100), Over(2)>>}

\* Address hashes whose values are 1, 97210745 and 2: the first two share a bucket.
K1 == Pad(<<1>>, 19)
K2 == Pad(<<121, 81, 203, 5>>, 16)
K3 == Pad(<<2>>, 19)

Keys == {K1, K2, K3}

HistBuckets == {bucket_index(k, history_buckets) : k \in Keys}

\* An output point and the input point that spends it.
P1 == [hash |-> Bytes(32, 17), index |-> <<0, 0, 0, 0>>]
S1 == [hash |-> Bytes(32, 34), index |-> <<1, 0, 0, 0>>]

\* add_output(key, P1, 10, 5000).
OutputHeights == {<<10, 0, 0, 0>>}
Value5000 == <<136, 19, 0, 0, 0, 0, 0, 0>>

\* add_spend(key, P1, S1, 20), and a spend height beyond 32 bits.
SpendHeights == {N(20), Over(20)}

Limits == 0..(MaxRows + 1)

FromHeights == {N(0), N(15), N(25), Over(0)}

\* The content of a slot no constructor has run on.
NoValue ==
    [height |-> N(0), is_coinbase |-> FALSE, hash |-> H1, outputs |-> 0]

\* An output of the transaction whose hash is H1.
UtxPoint == [hash |-> H1, index |-> <<0, 0, 0, 0>>]

UtxHeight == N(100)

(***************************************************************************)
(* The state after create().                                               *)
(***************************************************************************)
Init ==
    /\ ndebug \in BOOLEAN
    /\ running = TRUE
    /\ outcome = Returned("create")
    /\ tx_buckets = [b \in TxBuckets |-> empty]
    /\ tx_slabs = << >>
    /\ tx_free = 1
    /\ tx_hist = [h \in Hashes |-> << >>]
    /\ h_buckets = [b \in HistBuckets |-> empty]
    /\ h_keys = << >>
    /\ h_rows = << >>
    /\ h_hist = [k \in Keys |-> << >>]
    /\ h_pre = NoPre
    /\ h_key_count = 0
    /\ h_row_count = 0
    /\ h_stored = [keys |-> 0, rows |-> 0]
    /\ h_synced = [buckets |-> h_buckets, keys |-> h_keys, rows |-> h_rows,
                   hist |-> h_hist, at |-> 0]
    /\ crashes = 0
    /\ files = [lookup |-> "open", rows |-> "open"]
    /\ utx = [s \in Slots |-> NoValue]
    /\ utx_live = {}
    /\ utx_heap = << >>
    /\ utx_ident = [s \in Slots |-> H1]
    /\ utx_how = [s \in Slots |-> "none"]
    /\ base = 0
    /\ wpc = "idle"
    /\ rpc = [r \in Readers |-> "idle"]
    /\ handles = {}
    /\ r_address = [r \in Readers |-> no_address]
    /\ stale = FALSE

NextTx ==
    \/ \E a \in StoreArgs, tx \in Txs : TxStore(a[1], a[2], tx)
    \/ \E h \in Hashes : TxRemove(h)
    \/ \E h \in Hashes : TxGet(h)

SpecTx == Init /\ [][NextTx]_vars

NextHist ==
    \/ \E k \in Keys, h \in OutputHeights : AddOutput(k, P1, h, Value5000)
    \/ \E k \in Keys, h \in SpendHeights : AddSpend(k, P1, S1, h)
    \/ \E k \in Keys : DeleteLastRow(k)
    \/ \E k \in Keys, l \in {0, 1}, f \in {N(0), N(15)} : HistGet(k, l, f)

SpecHist == Init /\ [][NextHist]_vars

\* Both stores in one process, each with one kind of write.
NextBoth ==
    \/ TxStore(N(100), N(2), T1)
    \/ TxRemove(H1)
    \/ \E h \in Hashes : TxGet(h)
    \/ AddOutput(K1, P1, <<10, 0, 0, 0>>, Value5000)
    \/ DeleteLastRow(K1)
    \/ \E k \in {K1, K3} : HistGet(k, 0, N(0))

SpecBoth == Init /\ [][NextBoth]_vars

NextUtx ==
    \/ \E s \in Slots : UtxFromHash(s, H1)
    \/ \E s \in Slots : UtxFromPoint(s, UtxPoint)
    \/ \E s \in Slots, tx \in {T1, T3} : UtxFromTx(s, tx, UtxHeight)
    \/ \E s \in Slots, o \in Slots : UtxCopyConstruct(s, o)
    \/ \E s \in Slots, o \in Slots : UtxMoveConstruct(s, o)
    \/ \E s \in Slots, o \in Slots : UtxCopyAssign(s, o)
    \/ \E s \in Slots, o \in Slots : UtxMoveAssign(s, o)

SpecUtx == Init /\ [][NextUtx]_vars

\* The history store through syncs, a crash, restarts and stop.  An add to a
\* key whose head lies beyond the recovered count would link a record to
\* itself or into a cycle, and the next lookup would never end: the
\* behaviours followed here stop short of that call.
NextLife ==
    \/ Linkable(K1) /\ AddOutput(K1, P1, <<10, 0, 0, 0>>, Value5000)
    \/ Linkable(K3) /\ AddOutput(K3, P1, <<11, 0, 0, 0>>, Value5000)
    \/ HistSync
    \/ \E survive \in BOOLEAN : Crash(survive)
    \/ HistStart
    \/ \E a \in BOOLEAN, b \in BOOLEAN : HistStop(a, b)
    \/ \E k \in {K1, K3} : HistGet(k, 0, N(0))

SpecLife == Init /\ [][NextLife]_vars

\* The history store with its statistics read between the calls.
NextStat ==
    \/ \E k \in {K1, K2} : AddOutput(k, P1, <<10, 0, 0, 0>>, Value5000)
    \/ \E k \in {K1, K2} : AddSpend(k, P1, S1, N(20))
    \/ \E k \in {K1, K2} : DeleteLastRow(k)
    \/ HistStatInfo

SpecStat == Init /\ [][NextStat]_vars

NextMap ==
    \/ \E r \in Readers : ReaderEnter(r)
    \/ \E r \in Readers : ReaderAccess(r)
    \/ \E r \in Readers : ReaderRead(r)
    \/ \E r \in Readers : ReaderRelease(r)
    \/ WriterResize
    \/ WriterRemap
    \/ WriterResume

SpecMap == Init /\ [][NextMap]_vars

\* Fair scheduling: a reader that holds a handle goes on to read and to
\* release it, the writer takes a step that stays possible, and a reader
\* that can be granted a handle again and again is granted one.
MapFairness ==
    /\ \A r \in Readers : WF_vars(ReaderRead(r))
    /\ \A r \in Readers : WF_vars(ReaderRelease(r))
    /\ \A r \in Readers : SF_vars(ReaderAccess(r))
    /\ WF_vars(WriterRemap)
    /\ WF_vars(WriterResume)

SpecMapFair == SpecMap /\ MapFairness

(***************************************************************************)
(* Properties of the transaction store.                                    *)
(***************************************************************************)
Last(s) == s[Len(s)]

\* v fits in 32 bits.
Fits32(v) == SubSeq(v, 5, 8) = <<0, 0, 0, 0>>

IsStore(e) == e.op = "store"

\* Stores of h that took effect minus removes of h that took effect.
LiveCount(h) ==
    Len(SelectSeq(tx_hist[h], IsStore))
        - Len(SelectSeq(tx_hist[h], LAMBDA e : ~IsStore(e)))

\* What a get of the entry stored by e must decode to.
Entry(e) ==
    [found |-> TRUE, height |-> e.height, index |-> e.index, tx |-> e.tx]

TxStoreVars == <<tx_buckets, tx_slabs, tx_free>>

\* C1: when the last call that took effect on hash(t) is store(height, index,
\* t) with height and index fitting in 32 bits, get(hash(t)) is found and
\* decodes to exactly (height, index, t), whatever was stored or removed
\* under other hashes before or after.
TxRoundTrip ==
    \A h \in Hashes :
        LET s == tx_hist[h]
        IN  (s # << >> /\ IsStore(Last(s))
                /\ Fits32(Last(s).height) /\ Fits32(Last(s).index))
            => tx_get(tx_buckets, tx_slabs, h) = Entry(Last(s))

\* C1 witness: t is stored, then a transaction of the same bucket is stored
\* and removed again, and t is still the live entry of its hash.
TxRoundTripWitness ==
    \E h \in Hashes, g \in Hashes :
        /\ h # g
        /\ bucket_index(h, number_buckets) = bucket_index(g, number_buckets)
        /\ Len(tx_hist[h]) = 1 /\ IsStore(tx_hist[h][1])
        /\ Fits32(tx_hist[h][1].height) /\ Fits32(tx_hist[h][1].index)
        /\ Len(tx_hist[g]) = 2 /\ IsStore(tx_hist[g][1])
        /\ ~IsStore(tx_hist[g][2])
        /\ tx_hist[g][1].at > tx_hist[h][1].at

\* C8: when the last two calls that took effect on a hash are both stores
\* (each within store's 32-bit precondition), get returns the later entry,
\* found at the later slab, and the older slab still holds what was written
\* and is the next slab of that key behind the newer one.
TxNewestWins ==
    \A h \in Hashes :
        LET s == tx_hist[h]
            n == Len(s)
        IN  (n >= 2 /\ IsStore(s[n]) /\ IsStore(s[n - 1])
                /\ Fits32(s[n].height) /\ Fits32(s[n].index)
                /\ Fits32(s[n - 1].height) /\ Fits32(s[n - 1].index))
            => /\ tx_get(tx_buckets, tx_slabs, h) = Entry(s[n])
               /\ slab_find(tx_buckets, tx_slabs, h, number_buckets) = s[n].at
               /\ s[n - 1].at \in DOMAIN tx_slabs
               /\ transaction_result(tx_slabs, s[n - 1].at) = Entry(s[n - 1])
               /\ find_from(tx_slabs, tx_slabs[s[n].at].next, h) = s[n - 1].at

\* C8 witness: the same hash stored twice with different heights and indexes.
TxNewestWinsWitness ==
    \E h \in Hashes :
        /\ Len(tx_hist[h]) = 2
        /\ IsStore(tx_hist[h][1]) /\ IsStore(tx_hist[h][2])
        /\ Fits32(tx_hist[h][1].height) /\ Fits32(tx_hist[h][1].index)
        /\ Fits32(tx_hist[h][2].height) /\ Fits32(tx_hist[h][2].index)
        /\ tx_hist[h][1].height # tx_hist[h][2].height
        /\ tx_hist[h][1].index # tx_hist[h][2].index

Front(s) == SubSeq(s, 1, Len(s) - 1)

Reverse(s) == [i \in 1..Len(s) |-> s[Len(s) + 1 - i]]

Map(F(_), s) == [i \in 1..Len(s) |-> F(s[i])]

IsDelete(e) == e.op = "delete_last_row"

\* The adds of a key that no delete_last_row has undone, oldest first.
RECURSIVE Live(_)
Live(s) ==
    IF s = << >> THEN << >>
    ELSE IF IsDelete(Last(s)) THEN Front(Live(Front(s)))
    ELSE Append(Live(Front(s)), Last(s))

\* The row an add stores: the height is kept in 32 bits.
Stored(e) ==
    IF e.op = "add_output"
    THEN [kind |-> "output", point |-> e.point,
          height |-> SubSeq(e.height, 1, 4), value |-> e.value]
    ELSE [kind |-> "spend", point |-> e.point,
          height |-> SubSeq(e.height, 1, 4), value |-> checksum(e.previous)]

\* The rows of a key, most recently added first.
Expected(k) == Reverse(Map(Stored, Live(h_hist[k])))

Get(k, limit, from_height) ==
    history_get(h_buckets, h_keys, h_rows, k, limit, from_height)

Min(a, b) == IF a < b THEN a ELSE b

\* The rows of s at or above from_height, in the order of s.
AtOrAbove(s, f) ==
    SelectSeq(s, LAMBDA r : f = N(0) \/ LessEq(f, to_size_t(r.height)))

\* C2: for a key that only add_output and add_spend were called on,
\* get(key, 0, 0) returns one row per call, in the reverse of the order of
\* the calls.
HistMostRecentFirst ==
    \A k \in Keys :
        (\A i \in 1..Len(h_hist[k]) : ~IsDelete(h_hist[k][i]))
            => Get(k, 0, N(0)) = Reverse(Map(Stored, h_hist[k]))

\* C2 witness: an output and then a spend were added under one key.
HistMostRecentFirstWitness ==
    \E k \in Keys :
        /\ Len(h_hist[k]) = 2
        /\ h_hist[k][1].op = "add_output"
        /\ h_hist[k][2].op = "add_spend"

\* C3: after an add on a key and, as the next call, delete_last_row on the
\* same key, lookup(key) is the head it was before the add and get(key,
\* limit, from_height) returns what it returned before the add, for every
\* limit and from_height.
HistUndo ==
    h_pre.stage = "undone"
        => LET k == h_pre.key
           IN  /\ mm_lookup(h_buckets, h_keys, k)
                      = mm_lookup(h_pre.buckets, h_pre.keys, k)
               /\ \A l \in Limits, f \in FromHeights :
                      Get(k, l, f) = history_get(h_pre.buckets, h_pre.keys,
                                                 h_pre.rows, k, l, f)

\* C3 witness: the add that was undone was made on a key that had a row.
HistUndoWitness ==
    /\ h_pre.stage = "undone"
    /\ mm_lookup(h_pre.buckets, h_pre.keys, h_pre.key) # empty

\* C4: get(key, L, from_height) with L > 0 returns the first min(L, M) of
\* the M rows of the key at or above from_height, most recent first; with
\* L = 0 it returns all M of them.
HistLimit ==
    \A k \in Keys, l \in Limits, f \in FromHeights :
        LET matching == AtOrAbove(Expected(k), f)
        IN  Get(k, l, f) =
                IF l = 0 THEN matching
                ELSE SubSeq(matching, 1, Min(l, Len(matching)))

\* C4 witness: a key has more rows than a limit of 1 lets through.
HistLimitWitness ==
    \E k \in Keys :
        /\ Len(Expected(k)) >= 2
        /\ Len(Get(k, 1, N(0))) = 1

\* C5: get(key, 0, from_height) with from_height > 0 returns exactly the
\* rows of the key at or above from_height, those behind a row below
\* from_height included.
HistHeightFilter ==
    \A k \in Keys, f \in FromHeights \ {N(0)} :
        LET all == Expected(k)
            got == Get(k, 0, f)
        IN  /\ got = AtOrAbove(all, f)
            /\ \A i \in 1..Len(all), j \in 1..Len(all) :
                   (i < j /\ ~LessEq(f, to_size_t(all[i].height))
                          /\ LessEq(f, to_size_t(all[j].height)))
                       => \E n \in 1..Len(got) : got[n] = all[j]

\* C5 witness: the newest row of a key is below from_height and an older
\* row is not.
HistHeightFilterWitness ==
    \E k \in Keys :
        LET all == Expected(k)
        IN  /\ Len(all) >= 2
            /\ ~LessEq(N(15), to_size_t(all[1].height))
            /\ LessEq(N(15), to_size_t(all[2].height))

\* The row an add was given: the height as the caller passed it.
Given(e) ==
    IF e.op = "add_output"
    THEN [kind |-> "output", point |-> e.point,
          height |-> to_size_t(e.height), value |-> e.value]
    ELSE [kind |-> "spend", point |-> e.point,
          height |-> e.height, value |-> checksum(e.previous)]

Widened(r) == [r EXCEPT !.height = to_size_t(r.height)]

\* C7: every row get returns decodes to the kind, point, height and value
\* or checksum its add was given.
HistRowRoundTrip ==
    \A k \in Keys :
        Map(Widened, Get(k, 0, N(0))) = Reverse(Map(Given, Live(h_hist[k])))

(***************************************************************************)
(* Properties of the unspent_transaction value.                            *)
(***************************************************************************)
\* C6: for any two values, a == b holds exactly when a.hash() = b.hash(),
\* and hash() is still the hash the value was first built from after any
\* sequence of copy and move constructions and assignments, so that ==
\* does not depend on height, coinbase flag or outputs map.
UtxIdentityEquality ==
    \A a \in utx_live, b \in utx_live :
        /\ utx_equal(utx[a], utx[b])
               <=> (utx_hash_of(utx[a]) = utx_hash_of(utx[b]))
        /\ utx_equal(utx[a], utx[b]) <=> (utx_ident[a] = utx_ident[b])

\* C6 witness: two values compare equal, one of them set by a move, and
\* they differ in height, coinbase flag and outputs map.
UtxIdentityEqualityWitness ==
    \E a \in utx_live, b \in utx_live :
        /\ utx_equal(utx[a], utx[b])
        /\ utx_how[a] = "moved"
        /\ utx[a].height # utx[b].height
        /\ utx[a].is_coinbase # utx[b].is_coinbase
        /\ utx[a].outputs # utx[b].outputs

(***************************************************************************)
(* Properties of both stores.                                              *)
(***************************************************************************)
\* get of a hash with no live entry, and get of a key with no rows.
NotFoundResults ==
    /\ \A h \in Hashes :
           LiveCount(h) = 0
               => tx_get(tx_buckets, tx_slabs, h) = [found |-> FALSE]
    /\ \A k \in Keys :
           Live(h_hist[k]) = << >>
               => \A l \in Limits, f \in FromHeights : Get(k, l, f) = << >>

\* Such a get returns, and changes nothing of either store.
NotFoundSteps ==
    /\ \A h \in Hashes :
           (LiveCount(h) = 0 /\ TxGet(h))
               => /\ running' /\ Ret(outcome') = "return"
                  /\ UNCHANGED <<tx_vars, h_vars>>
    /\ \A k \in Keys, l \in Limits, f \in FromHeights :
           (Live(h_hist[k]) = << >> /\ HistGet(k, l, f))
               => /\ running' /\ Ret(outcome') = "return"
                  /\ UNCHANGED <<tx_vars, h_buckets, h_keys, h_rows>>

\* C9: in every reachable state, get of a hash with no live entry (never
\* stored, or every stored entry removed) is the not-found result and get
\* of a key with no rows is the empty sequence; neither call fails and
\* neither changes the store.
NotFoundIsAValue == []NotFoundResults /\ [][NotFoundSteps]_vars

\* C9 witness: a get has returned not-found for a hash whose only entry was
\* removed, while a key of the history store has lost its only row.
NotFoundIsAValueWitness ==
    /\ outcome = Ended("get", "return", FALSE)
    /\ \E h \in Hashes : Len(tx_hist[h]) = 2 /\ LiveCount(h) = 0
    /\ \E k \in Keys : Len(h_hist[k]) = 2 /\ Live(h_hist[k]) = << >>

TxStoreOverflowFails ==
    \A h \in Hashes :
        LET s == tx_hist[h]
        IN  /\ \A i \in 1..Len(s) :
                   IsStore(s[i]) => Fits32(s[i].height) /\ Fits32(s[i].index)
            /\ (s # << >> /\ IsStore(Last(s)))
                   => tx_get(tx_buckets, tx_slabs, h) = Entry(Last(s))

(***************************************************************************)
(* Properties of the mapped file.                                          *)
(***************************************************************************)
\* The remap happens with no handle outstanding, and no handle is granted
\* from the request for growth until the writer resumes.
RemapBarrierSteps ==
    /\ base' # base => (handles = {} /\ handles' = {})
    /\ wpc # "idle" => handles' \subseteq handles

\* C13: the address of the file never changes while a handle is
\* outstanding: the remap happens only with no handle outstanding, no handle
\* is granted while the growth is under way, every held address is the
\* current one, and no reader uses an address from before a remap.
RemapBarrier ==
    /\ [](\A r \in handles : r_address[r] = base)
    /\ [](~stale)
    /\ [][RemapBarrierSteps]_vars

\* C13 witness: after a remap a reader has read through a handle granted
\* since, while the other reader waits for a growth under way to finish.
RemapBarrierWitness ==
    /\ base >= 1
    /\ wpc = "waiting"
    /\ \E r \in Readers : rpc[r] = "read" /\ r_address[r] = base
    /\ \E r \in Readers : rpc[r] = "waiting"

\* C16: under fair scheduling every request for growth leads to the remap
\* and to the writer's resuming, and every reader waiting for a handle is
\* granted one: neither the writer nor a reader waits forever.
GrowthCompletes ==
    /\ (wpc = "waiting") ~> (wpc = "remapped")
    /\ (wpc = "remapped") ~> (wpc = "idle")
    /\ \A r \in Readers : (rpc[r] = "waiting") ~> (r \in handles)

\* C16 witness: growth is requested while one reader holds a handle and the
\* other waits for one.
GrowthCompletesWitness ==
    /\ wpc = "waiting"
    /\ \E r \in Readers : r \in handles /\ rpc[r] = "held"
    /\ \E r \in Readers : rpc[r] = "waiting" /\ r \notin handles

(***************************************************************************)
(* Properties of the life cycle of the history store.                      *)
(***************************************************************************)
\* The rows of key k that the calls made before the last sync left.
SyncedRows(k) == Reverse(Map(Stored, Live(h_synced.hist[k])))

\* The rows get reaches for k all lie within the row manager's count.
WithinCount(k) ==
    \A i \in chain_rows(h_rows, mm_lookup(h_buckets, h_keys, k)) :
        i <= h_row_count

\* get(k, 0, 0) ends with the rows of SyncedRows(k), in their order.
StillRetrievable(k) ==
    LET got == Get(k, 0, N(0))
        synced == SyncedRows(k)
    IN  /\ Len(got) >= Len(synced)
        /\ SubSeq(got, Len(got) - Len(synced) + 1, Len(got)) = synced

\* C14: once a sync has returned after an add (in the process that created
\* the store), in every state in which the store is started, also after a
\* crash and start(), every row added before that sync is returned by get
\* with the same content and in the same order, and every row reachable
\* from the key index lies within the row count of the row manager.
SyncIsDurable ==
    (running /\ h_stored.rows > 0 /\ h_synced.at = 0)
        => \A k \in Keys : WithinCount(k) /\ StillRetrievable(k)

\* C15: when stop() has returned, it returned success exactly when both
\* files were stopped successfully, and neither file is left un-stopped.
StopStopsBoth ==
    outcome[1] = "stop"
        => /\ outcome[3] <=> (files.lookup = "stopped" /\ files.rows = "stopped")
           /\ files.lookup # "open" /\ files.rows # "open"

(***************************************************************************)
(* Frame conditions of the stores.                                         *)
(***************************************************************************)
\* C17: remove(h) leaves get(g) as it was for every hash g other than h,
\* whether g's slab lies in another bucket, or in h's bucket in front of or
\* behind the slab of h.
TxRemoveFrame ==
    [][\A h \in Hashes, g \in Hashes :
        (g # h /\ TxRemove(h))
            => tx_get(tx_buckets', tx_slabs', g)
                   = tx_get(tx_buckets, tx_slabs, g)]_vars

\* C17 witness: a hash was removed whose slab lay behind the slab of a live
\* hash of the same bucket.
TxRemoveFrameWitness ==
    /\ outcome = Ended("remove", "return", TRUE)
    /\ \E h \in Hashes, g \in Hashes :
        /\ g # h
        /\ bucket_index(h, number_buckets) = bucket_index(g, number_buckets)
        /\ Len(tx_hist[h]) = 2 /\ ~IsStore(tx_hist[h][2])
        /\ Len(tx_hist[g]) = 1
        /\ tx_hist[g][1].at > tx_hist[h][1].at
        /\ tx_get(tx_buckets, tx_slabs, g).found

\* The stores of a hash that no remove has unlinked, oldest first.
RECURSIVE TxLive(_)
TxLive(s) ==
    IF s = << >> THEN << >>
    ELSE IF IsStore(Last(s)) THEN Append(TxLive(Front(s)), Last(s))
    ELSE Front(TxLive(Front(s)))

\* C18: each remove(h) unlinks the newest entry of h only: get(h) returns
\* the newest store of h that no remove has unlinked (after two stores and
\* one remove, the first), and is not-found exactly when there were as
\* many removes as stores; stated for stores within the 32-bit precondition.
TxRemoveNewestOnly ==
    \A h \in Hashes :
        LET s == tx_hist[h]
        IN  (\A i \in 1..Len(s) :
                 IsStore(s[i]) => Fits32(s[i].height) /\ Fits32(s[i].index))
            => tx_get(tx_buckets, tx_slabs, h) =
                   IF TxLive(s) = << >> THEN [found |-> FALSE]
                   ELSE Entry(Last(TxLive(s)))

\* C18 witness: a hash was stored twice, with different heights and
\* indexes, and removed once.
TxRemoveNewestOnlyWitness ==
    \E h \in Hashes :
        LET s == tx_hist[h]
        IN  /\ Len(s) = 3
            /\ IsStore(s[1]) /\ IsStore(s[2]) /\ ~IsStore(s[3])
            /\ Fits32(s[1].height) /\ Fits32(s[1].index)
            /\ Fits32(s[2].height) /\ Fits32(s[2].index)
            /\ s[1].height # s[2].height /\ s[1].index # s[2].index
            /\ tx_get(tx_buckets, tx_slabs, h) = Entry(s[1])

\* C19: a step that is add_output, add_spend or delete_last_row on a key a
\* leaves get(b, limit, from_height) as it was for every other key b and
\* every limit and from_height, for keys that share a bucket too, and when
\* the step deletes the last row of a.
HistKeysIsolated ==
    [][\A a \in Keys, b \in Keys :
        (a # b /\ h_hist'[a] # h_hist[a])
            => \A l \in Limits, f \in FromHeights :
                   history_get(h_buckets', h_keys', h_rows', b, l, f)
                       = Get(b, l, f)]_vars

\* C19 witness: the only row of a key was deleted while a key of the same
\* bucket holds a row.
HistKeysIsolatedWitness ==
    /\ outcome = Returned("delete_last_row")
    /\ \E a \in Keys, b \in Keys :
        /\ a # b
        /\ bucket_index(a, history_buckets) = bucket_index(b, history_buckets)
        /\ Len(h_hist[a]) = 2 /\ Live(h_hist[a]) = << >>
        /\ Live(h_hist[b]) # << >>

(***************************************************************************)
(* Properties of the statistics of the history store.                      *)
(***************************************************************************)
IsAdd(e) == ~IsDelete(e)

\* The add_output and add_spend calls made since create().
AddsMade ==
    Len(SelectSeq(h_hist[K1], IsAdd)) + Len(SelectSeq(h_hist[K2], IsAdd))
        + Len(SelectSeq(h_hist[K3], IsAdd))

\* The rows get returns, over all keys.
RowsReachable ==
    Len(Get(K1, 0, N(0))) + Len(Get(K2, 0, N(0))) + Len(Get(K3, 0, N(0)))

\* What statinfo has just returned: the constant bucket count, and a row
\* count that is the number of adds made and at least the rows reachable.
StatInfoResults ==
    outcome[1] = "statinfo"
        => /\ outcome[3].buckets = history_buckets
           /\ outcome[3].rows = AddsMade
           /\ outcome[3].rows >= RowsReachable

\* statinfo changes no state; no call lowers the row count it reports or
\* changes the buckets there are.
StatInfoSteps ==
    /\ HistStatInfo
           => UNCHANGED <<ndebug, running, tx_vars, h_vars, utx_vars, sys_vars>>
    /\ statinfo(h_key_count', h_row_count').rows
           >= statinfo(h_key_count, h_row_count).rows
    /\ statinfo(h_key_count', h_row_count').buckets
           = statinfo(h_key_count, h_row_count).buckets
    /\ DOMAIN h_buckets' = DOMAIN h_buckets

\* C20: statinfo() changes no state; the bucket count it reports is the
\* same constant in every state; the row count it reports is the number of
\* add_output and add_spend calls made since create(), which no
\* delete_last_row lowers, so it can exceed the rows reachable through get.
StatInfoAppendOnly == []StatInfoResults /\ [][StatInfoSteps]_vars

\* C20 witness: statinfo reports two rows after two adds and a delete, more
\* than get can reach.
StatInfoAppendOnlyWitness ==
    /\ outcome[1] = "statinfo"
    /\ outcome[3].rows = 2
    /\ RowsReachable < 2

====
